---- MODULE Spec2Model ----
(***************************************************************************)
(* A model of src/app.py: extraction of Japanese mobile phone numbers from *)
(* the cells of a table, with a priority-ordered list of columns.          *)
(*                                                                         *)
(* A text is a sequence of Unicode code points (naturals), so that the     *)
(* character classes of the regular expressions of the source, and the     *)
(* translation table FW_TO_ASCII, are modelled by what they do.            *)
(***************************************************************************)
EXTENDS Integers, Sequences, FiniteSets, TLC

VARIABLES
    df,                     \* the input table: [columns, rows]
    column_priority_list,   \* the caller's ordered list of column names
    pc,                     \* position in extract_mobile_numbers_from_multiple_columns
    idx,                    \* number of the row being processed (0 before the first)
    ci,                     \* how many entries of column_priority_list were visited
    found_mobile_numbers,   \* the list adopted for the current row
    results,                \* the rows collected so far
    output,                 \* the returned table: [columns, rows]
    scan,                   \* per row: the state of its column scan and the columns inspected
    arg,                    \* argument of a direct call of a pure function
    ret                     \* result of that call

vars == <<df, column_priority_list, pc, idx, ci, found_mobile_numbers,
          results, output, scan, arg, ret>>

-----------------------------------------------------------------------------
(* Bounds of the model *)

MaxRows == 2

MaxPriority == 2

MaxItems == 3

MaxPureLen == 2

-----------------------------------------------------------------------------
(* Characters and character classes *)

\* ASCII digits 0-9.
IsAsciiDigit(c) == c \in 48..57

\* \d of a Python 3 str pattern: any Unicode decimal digit (category Nd).
\* The ranges listed are ASCII, Arabic-Indic, Devanagari and full-width.
IsDigit(c) ==
    \/ c \in 48..57
    \/ c \in 1632..1641
    \/ c \in 2406..2415
    \/ c \in 65296..65305

\* \s of a Python 3 str pattern, and the characters str.strip() removes.
IsSpace(c) ==
    \/ c \in 9..13
    \/ c \in 28..32
    \/ c \in {133, 160, 5760, 8232, 8233, 8239, 8287, 12288}
    \/ c \in 8192..8202

\* the dash-like characters: hyphen-minus, U+2010..U+2015, U+2212.
IsDash(c) == c = 45 \/ c \in 8208..8213 \/ c = 8722

\* FW_TO_ASCII: full-width digits to ASCII digits, full-width plus to '+'.
FW_TO_ASCII(c) ==
    IF c \in 65296..65305 THEN c - 65248
    ELSE IF c = 65291 THEN 43
    ELSE c

-----------------------------------------------------------------------------
(* Generic helpers on sequences *)

Range(s) == {s[i] : i \in 1..Len(s)}

Max(S) == CHOOSE x \in S : \A y \in S : y <= x

Min(S) == CHOOSE x \in S : \A y \in S : x <= y

\* str.strip(): drop leading and trailing whitespace.
Strip(s) ==
    LET keep == {i \in 1..Len(s) : ~IsSpace(s[i])}
    IN  IF keep = {} THEN <<>> ELSE SubSeq(s, Min(keep), Max(keep))

Translate(s) == [i \in 1..Len(s) |-> FW_TO_ASCII(s[i])]

-----------------------------------------------------------------------------
(* The normalizer and the validator *)

NotSpaceOrDash(c) == ~(IsSpace(c) \/ IsDash(c))

\* The Python value None, as an argument of the normalizer.
None == <<-2>>

\* normalize_digits: None -> '', else translate(FW_TO_ASCII) and strip().
normalize_digits(s) == IF s = None THEN <<>> ELSE Strip(Translate(s))

\* s.startswith('+81')
StartsWithPlus81(s) == Len(s) >= 3 /\ s[1] = 43 /\ s[2] = 56 /\ s[3] = 49

\* '0' + s[3:] when s starts with '+81'
ConvertIntl(s) ==
    IF StartsWithPlus81(s) THEN <<48>> \o SubSeq(s, 4, Len(s)) ELSE s

\* re.sub(r'[^\d]', '', s): \d is the Unicode-aware class.
KeepDigits(s) == SelectSeq(s, IsDigit)

normalize_candidate(candidate) ==
    IF candidate = <<>> \/ candidate = None THEN <<>>
    ELSE KeepDigits(ConvertIntl(SelectSeq(normalize_digits(candidate), NotSpaceOrDash)))

\* (070|080|090)
IsMobilePrefix(num) ==
    /\ num[1] = 48
    /\ num[2] \in {55, 56, 57}
    /\ num[3] = 48

\* re.fullmatch(r'^(070|080|090)\d{8}$', num)
is_valid_jp_mobile(num) ==
    /\ Len(num) = 11
    /\ IsMobilePrefix(num)
    /\ \A i \in 4..11 : IsDigit(num[i])

-----------------------------------------------------------------------------
(* candidate_re.findall *)

\* [\d\-\s\u2010-\u2015\u2212]
InCandidateClass(c) == IsDigit(c) \/ IsDash(c) \/ IsSpace(c)

\* The greedy match of [class]*\d after a first digit at q: the run of class
\* characters after q is taken whole, then given back down to its last
\* digit. The position of that digit, 0 when the run holds no digit.
CandidateEnd(text, q) ==
    LET stops == {k \in (q + 1)..Len(text) : ~InCandidateClass(text[k])}
        last  == IF stops = {} THEN Len(text) ELSE Min(stops) - 1
        ends  == {e \in (q + 1)..last : IsDigit(text[e])}
    IN  IF ends = {} THEN 0 ELSE Max(ends)

\* The match of candidate_re that starts at p: the position of its last
\* character, 0 when there is none. \+? takes a '+' at p when one is there.
MatchAt(text, p) ==
    LET q == IF text[p] = 43 THEN p + 1 ELSE p
    IN  IF q <= Len(text) /\ IsDigit(text[q]) THEN CandidateEnd(text, q) ELSE 0

RECURSIVE FindAllFrom(_, _)
\* Leftmost, non-overlapping matches from position p on.
FindAllFrom(text, p) ==
    IF p > Len(text) THEN <<>>
    ELSE LET e == MatchAt(text, p)
         IN  IF e = 0 THEN FindAllFrom(text, p + 1)
             ELSE <<SubSeq(text, p, e)>> \o FindAllFrom(text, e + 1)

findall(text) == FindAllFrom(text, 1)

RECURSIVE KeepValid(_)
\* for cand in candidates: norm = normalize_candidate(cand); keep norm if valid
KeepValid(candidates) ==
    IF candidates = <<>> THEN <<>>
    ELSE LET norm == normalize_candidate(Head(candidates))
         IN  (IF is_valid_jp_mobile(norm) THEN <<norm>> ELSE <<>>)
                 \o KeepValid(Tail(candidates))

\* extracted_from_col of one cell text
ExtractedFromText(text) == KeepValid(findall(text))

-----------------------------------------------------------------------------
(* Tables, rows and the per-row steps *)

\* The name of the derived column.
EMN == "extracted_mobile_numbers"

\* A missing cell value (NaN / None); pd.notna is false of it alone.
NaN == <<-1>>

notna(v) == v # NaN

\* col_name in row and pd.notna(row[col_name])
CellPresent(row, col_name) ==
    col_name \in Range(row.index) /\ notna(row.val[col_name])

\* extracted_from_col for one entry of the priority list; [] when the cell
\* is skipped.
ExtractedFromCol(row, col_name) ==
    IF CellPresent(row, col_name) THEN ExtractedFromText(row.val[col_name])
    ELSE <<>>

RECURSIVE DedupeFrom(_, _)
\* seen = set(); deduped = []; for n in found: if n not in seen: ...
DedupeFrom(found, seen) ==
    IF found = <<>> THEN <<>>
    ELSE IF Head(found) \in seen THEN DedupeFrom(Tail(found), seen)
    ELSE <<Head(found)>> \o DedupeFrom(Tail(found), seen \cup {Head(found)})

\* Faulty variant of Dedupe: the seen-set test forgotten.
DedupeNone(found) == found

Dedupe(found) == DedupeFrom(found, {})

RECURSIVE Join(_)
\* ','.join(deduped)
Join(nums) ==
    IF nums = <<>> THEN <<>>
    ELSE IF Len(nums) = 1 THEN nums[1]
    ELSE nums[1] \o <<44>> \o Join(Tail(nums))

\* new_row = row.copy(); new_row[key] = value: an existing label is
\* overwritten in place, a new label is appended to the index.
SetItem(row, key, value) ==
    [name  |-> row.name,
     index |-> IF key \in Range(row.index) THEN row.index
               ELSE Append(row.index, key),
     val   |-> [k \in DOMAIN row.val \cup {key} |->
                   IF k = key THEN value ELSE row.val[k]]]

\* df.iterrows(): the i-th row as a Series labelled by the columns.
RowOf(table, i) == table.rows[i]

\* pd.DataFrame(results) for a non-empty list of Series with one index.
FrameOfRows(rs) == [columns |-> rs[1].index, rows |-> rs]

\* pd.DataFrame(columns=list(df.columns) + ['extracted_mobile_numbers'])
EmptyFrame(table) == [columns |-> Append(table.columns, EMN), rows |-> <<>>]

NoFrame == [columns |-> <<>>, rows |-> <<>>]

\* if extracted_from_col: the column is a hit.
IsHit(extracted_from_col) == extracted_from_col # <<>>

\* found_mobile_numbers = extracted_from_col on a hit.
Adopt(found, extracted_from_col) == extracted_from_col

\* Faulty variants of Breaks: the break forgotten; the break outside the `if`.
BreaksNever(extracted_from_col) == FALSE

BreaksAlways(extracted_from_col) == TRUE

\* Whether the visit of a priority entry ends the column loop: the break
\* stands inside `if extracted_from_col:`.
Breaks(extracted_from_col) == IsHit(extracted_from_col)

\* for idx, row in df.iterrows(): found_mobile_numbers = []
BeginRow ==
    /\ pc = "rows"
    /\ idx < Len(df.rows)
    /\ idx' = idx + 1
    /\ ci' = 0
    /\ found_mobile_numbers' = <<>>
    /\ scan' = [scan EXCEPT ![idx + 1] = [st |-> "SCANNING", inspected |-> <<>>]]
    /\ pc' = "cols"
    /\ UNCHANGED <<df, column_priority_list, results, output, arg, ret>>

\* One iteration of `for col_name in column_priority_list`.
InspectColumn ==
    /\ pc = "cols"
    /\ ci < Len(column_priority_list)
    /\ LET row == RowOf(df, idx)
           extracted_from_col == ExtractedFromCol(row, column_priority_list[ci + 1])
       IN  /\ ci' = ci + 1
           /\ found_mobile_numbers' =
                 IF IsHit(extracted_from_col)
                 THEN Adopt(found_mobile_numbers, extracted_from_col)
                 ELSE found_mobile_numbers
           /\ pc' = IF Breaks(extracted_from_col) THEN "dedupe" ELSE "cols"
           /\ scan' = [scan EXCEPT ![idx] =
                         [st |-> IF IsHit(extracted_from_col) THEN "HIT" ELSE @.st,
                          inspected |-> Append(@.inspected, ci + 1)]]
    /\ UNCHANGED <<df, column_priority_list, idx, results, output, arg, ret>>

\* The priority list is exhausted without a break.
EndColumns ==
    /\ pc = "cols"
    /\ ci = Len(column_priority_list)
    /\ pc' = "dedupe"
    /\ scan' = [scan EXCEPT ![idx] = [@ EXCEPT !.st = "NO_HIT_ANY"]]
    /\ UNCHANGED <<df, column_priority_list, idx, ci, found_mobile_numbers,
                   results, output, arg, ret>>

\* Dedupe the adopted list; append the row to results when it is non-empty.
FinishRow ==
    /\ pc = "dedupe"
    /\ LET deduped == Dedupe(found_mobile_numbers)
       IN  results' = IF deduped # <<>>
                      THEN Append(results, SetItem(RowOf(df, idx), EMN, Join(deduped)))
                      ELSE results
    /\ pc' = "rows"
    /\ UNCHANGED <<df, column_priority_list, idx, ci, found_mobile_numbers,
                   output, scan, arg, ret>>

\* if results: return pd.DataFrame(results) else the empty frame.
Return ==
    /\ pc = "rows"
    /\ idx = Len(df.rows)
    /\ output' = IF results # <<>> THEN FrameOfRows(results) ELSE EmptyFrame(df)
    /\ pc' = "done"
    /\ UNCHANGED <<df, column_priority_list, idx, ci, found_mobile_numbers,
                   results, scan, arg, ret>>

-----------------------------------------------------------------------------
(* Direct calls of the pure functions *)

NoCall == [fn |-> "none", text |-> <<>>, valid |-> FALSE]

\* normalize_candidate(arg)
CallNormalize ==
    /\ pc = "call"
    /\ ret' = [fn |-> "normalize_candidate", text |-> normalize_candidate(arg),
               valid |-> FALSE]
    /\ pc' = "returned"
    /\ UNCHANGED <<df, column_priority_list, idx, ci, found_mobile_numbers,
                   results, output, scan, arg>>

\* is_valid_jp_mobile(arg), for a str argument
CallValidate ==
    /\ pc = "call"
    /\ arg # None
    /\ ret' = [fn |-> "is_valid_jp_mobile", text |-> <<>>,
               valid |-> is_valid_jp_mobile(arg)]
    /\ pc' = "returned"
    /\ UNCHANGED <<df, column_priority_list, idx, ci, found_mobile_numbers,
                   results, output, scan, arg>>

-----------------------------------------------------------------------------
(* Inputs *)

\* Three mobile numbers, as digit values.
N1 == <<0, 9, 0, 1, 1, 1, 1, 2, 2, 2, 2>>

N2 == <<0, 8, 0, 3, 3, 3, 3, 4, 4, 4, 4>>

N3 == <<0, 7, 0, 5, 5, 5, 5, 6, 6, 6, 6>>

\* Notations of an 11-digit number given by its digit values.
Ascii(ds) == [i \in 1..Len(ds) |-> 48 + ds[i]]

FullWidth(ds) == [i \in 1..Len(ds) |-> 65296 + ds[i]]

\* 3-4-4 grouping of an 11-character text with a separator text.
Grouped(t, sep) == SubSeq(t, 1, 3) \o sep \o SubSeq(t, 4, 7) \o sep \o SubSeq(t, 8, 11)

Hyphenated(ds) == Grouped(Ascii(ds), <<45>>)

Spaced(ds) == Grouped(Ascii(ds), <<32>>)

\* full-width digits with the full-width hyphen-minus U+FF0D
FullWidthHyphenated(ds) == Grouped(FullWidth(ds), <<65293>>)

\* +81 90-1111-2222: the trunk 0 dropped after the country code
Intl(ds) == <<43, 56, 49, 32>> \o SubSeq(Hyphenated(ds), 2, 13)

\* ASCII prefix followed by Arabic-Indic digits
ArabicTail(ds) == [i \in 1..Len(ds) |-> IF i <= 3 THEN 48 + ds[i] ELSE 1632 + ds[i]]

\* 03-1234-5678, a land line
LandLine == <<48, 51, 45, 49, 50, 51, 52, 45, 53, 54, 55, 56>>

\* "n/a"
NoCandidate == <<110, 47, 97>>

Comma == <<44>>

Space == <<32>>

\* " call "
CallWord == <<32, 99, 97, 108, 108, 32>>

RECURSIVE JoinWith(_, _)
JoinWith(items, sep) ==
    IF items = <<>> THEN <<>>
    ELSE IF Len(items) = 1 THEN items[1]
    ELSE items[1] \o sep \o JoinWith(Tail(items), sep)

SeqsUpTo(S, n) == UNION {[1..k -> S] : k \in 0..n}

\* What one cell may hold in the single-cell specification: up to MaxItems
\* items joined by one separator.
Items ==
    {Ascii(N1), Hyphenated(N1), Spaced(N1), FullWidth(N1), Intl(N1),
     Ascii(N2), ArabicTail(N2), LandLine}

Seps == {Comma, Space, CallWord}

CellTexts ==
    {NaN} \cup {JoinWith(items, sep) : items \in SeqsUpTo(Items, MaxItems), sep \in Seps}

\* What the cells of the first and of the second column may hold in the
\* table specifications.
CellsA ==
    {NaN, LandLine, JoinWith(<<Hyphenated(N1), Ascii(N2), FullWidth(N1)>>, Comma)}

CellsB == {NoCandidate, Ascii(N3)}

PriorityNames == {"A", "B", "Z"}

Series(cols, n, f) == [name |-> n, index |-> cols, val |-> f]

\* The tables of up to MaxRows rows over the two columns cols.
TablesOver(cols) ==
    UNION {
      {[columns |-> cols,
        rows |-> [i \in 1..n |->
                    Series(cols, i, [c \in Range(cols) |->
                                        IF c = cols[1] THEN cells[i][1] ELSE cells[i][2]])]] :
          cells \in [1..n -> CellsA \X CellsB]} :
      n \in 0..MaxRows}

\* Arguments of the direct calls.
PureAlphabet == {48, 56, 49, 43, 65291, 45, 32, 97, 1635, 65304, 8722, 65293}

ShortTexts == SeqsUpTo(PureAlphabet, MaxPureLen)

PureInputs ==
    {None} \cup ShortTexts
    \cup {pre \o item \o post :
            pre \in SeqsUpTo(PureAlphabet, 1),
            item \in Items \cup {FullWidthHyphenated(N1), Ascii(N3),
                                 SubSeq(Ascii(N1), 1, 10),
                                 <<48, 54, 48>> \o SubSeq(Ascii(N1), 4, 11)},
            post \in SeqsUpTo(PureAlphabet, 1)}

-----------------------------------------------------------------------------
(* Specifications *)

InitWith(table, priority) ==
    /\ df = table
    /\ column_priority_list = priority
    /\ pc = "rows"
    /\ idx = 0
    /\ ci = 0
    /\ found_mobile_numbers = <<>>
    /\ results = <<>>
    /\ output = NoFrame
    /\ scan = [i \in 1..Len(table.rows) |-> [st |-> "NOT_STARTED", inspected |-> <<>>]]
    /\ arg = <<>>
    /\ ret = NoCall

\* Tables of up to MaxRows rows over the columns A and B, with any priority
\* list of up to MaxPriority names, one of them the name of no column.
Init ==
    \E table \in TablesOver(<<"A", "B">>),
       priority \in SeqsUpTo(PriorityNames, MaxPriority) :
        InitWith(table, priority)

\* The same, for a table that already has a column extracted_mobile_numbers
\* (such as a file this program wrote) as well.
InitTable ==
    \E cols \in {<<"A", "B">>, <<"A", EMN>>} :
        \E table \in TablesOver(cols),
           priority \in SeqsUpTo({"A", cols[2]}, MaxPriority) :
            InitWith(table, priority)

Next ==
    \/ BeginRow
    \/ InspectColumn
    \/ EndColumns
    \/ FinishRow
    \/ Return

Spec == Init /\ [][Next]_vars

SpecTable == InitTable /\ [][Next]_vars

\* One row with one cell, drawn from CellTexts.
InitCell ==
    \E text \in CellTexts :
        InitWith([columns |-> <<"A">>,
                  rows |-> <<Series(<<"A">>, 1, [c \in {"A"} |-> text])>>],
                 <<"A">>)

SpecCell == InitCell /\ [][Next]_vars

\* A direct call of normalize_candidate or is_valid_jp_mobile.
InitPure ==
    /\ df = NoFrame
    /\ column_priority_list = <<>>
    /\ pc = "call"
    /\ idx = 0
    /\ ci = 0
    /\ found_mobile_numbers = <<>>
    /\ results = <<>>
    /\ output = NoFrame
    /\ scan = <<>>
    /\ arg \in PureInputs
    /\ ret = NoCall

NextPure == CallNormalize \/ CallValidate

SpecPure == InitPure /\ [][NextPure]_vars

-----------------------------------------------------------------------------
(* Vocabulary of the properties *)

RECURSIVE Split(_)
\* The comma-separated elements of a text.
Split(text) ==
    LET commas == {i \in 1..Len(text) : text[i] = 44}
    IN  IF commas = {} THEN <<text>>
        ELSE <<SubSeq(text, 1, Min(commas) - 1)>>
                 \o Split(SubSeq(text, Min(commas) + 1, Len(text)))

FirstIndex(s, x) == Min({i \in 1..Len(s) : s[i] = x})

\* out lists the members of s once each, in the order of their first
\* occurrence in s.
IsFirstOccurrenceList(out, s) ==
    /\ Range(out) = Range(s)
    /\ \A i, j \in 1..Len(out) :
          i < j => out[i] # out[j] /\ FirstIndex(s, out[i]) < FirstIndex(s, out[j])

\* The valid numbers of every text a cell of the table specifications may
\* hold, tabulated.
ValidOfTableCell == [t \in (CellsA \cup CellsB) \ {NaN} |-> ExtractedFromText(t)]

\* The valid numbers that the cell of a row in a column yields; none when
\* the column is absent from the row or the cell is null.
Valid(row, col_name) ==
    IF CellPresent(row, col_name) THEN ValidOfTableCell[row.val[col_name]] ELSE <<>>

\* The position in the priority list of the first column whose cell yields
\* a valid number, 0 when there is none.
FirstHit(row, priority) ==
    LET hits == {i \in 1..Len(priority) : Valid(row, priority[i]) # <<>>}
    IN  IF hits = {} THEN 0 ELSE Min(hits)

\* The rows of the returned table that come from input row i.
OutputRowsOf(i) == {k \in 1..Len(output.rows) : output.rows[k].name = i}

\* The numbers reported for a result row.
Reported(r) == Split(r.val[EMN])

\* A character that ends a written number: whitespace, a comma or a letter.
IsDelimiter(c) == IsSpace(c) \/ c = 44 \/ c \in 97..122

\* The text w stands in text as a word of its own.
WrittenIn(text, w) ==
    \E p \in 1..Len(text) :
        /\ p + Len(w) - 1 <= Len(text)
        /\ SubSeq(text, p, p + Len(w) - 1) = w
        /\ p = 1 \/ IsDelimiter(text[p - 1])
        /\ p + Len(w) - 1 = Len(text) \/ IsDelimiter(text[p + Len(w)])

\* The positions at which w stands in text as a word of its own.
WrittenAt(text, w) ==
    {p \in 1..Len(text) :
        /\ p + Len(w) - 1 <= Len(text)
        /\ SubSeq(text, p, p + Len(w) - 1) = w
        /\ p = 1 \/ IsDelimiter(text[p - 1])
        /\ p + Len(w) - 1 = Len(text) \/ IsDelimiter(text[p + Len(w)])}

\* The text of the one cell of the single-cell specification.
TheCell == df.rows[1].val["A"]

KnownNumbers == {N1, N2}

-----------------------------------------------------------------------------
(* C1 *)

\* C1: first hit wins. When the extraction is done, every input row whose
\* priority columns all miss (absent, null, no candidate, only invalid
\* candidates) has no result row, and every other row has one result row whose
\* reported numbers are exactly the valid candidates of the first column in
\* priority order that yields one, each once, in first-occurrence order; so no
\* number of a lower-priority column is reported.
C1_FirstHitWins ==
    pc = "done" =>
        \A i \in 1..Len(df.rows) :
            LET row == df.rows[i]
                h   == FirstHit(row, column_priority_list)
            IN  IF h = 0 THEN OutputRowsOf(i) = {}
                ELSE /\ Cardinality(OutputRowsOf(i)) = 1
                     /\ \A k \in OutputRowsOf(i) :
                           IsFirstOccurrenceList(
                               Reported(output.rows[k]),
                               Valid(row, column_priority_list[h]))

\* A finished extraction with a row whose first column holds valid numbers
\* and whose second column holds other valid numbers, and a row whose first
\* column holds only a candidate that fails validation and whose second column
\* is adopted.
C1_Witness ==
    /\ pc = "done"
    /\ Len(column_priority_list) = 2
    /\ \E i \in 1..Len(df.rows) :
          LET a == Valid(df.rows[i], column_priority_list[1])
              b == Valid(df.rows[i], column_priority_list[2])
          IN  /\ a # <<>> /\ b # <<>> /\ Range(a) \cap Range(b) = {}
              /\ \E k \in OutputRowsOf(i) : Range(Reported(output.rows[k])) = Range(a)
    /\ \E i \in 1..Len(df.rows) :
          /\ CellPresent(df.rows[i], column_priority_list[1])
          /\ findall(df.rows[i].val[column_priority_list[1]]) # <<>>
          /\ FirstHit(df.rows[i], column_priority_list) = 2
          /\ OutputRowsOf(i) # {}

-----------------------------------------------------------------------------
(* C2 *)

\* The input rows that have a valid number, in their order.
RECURSIVE MatchingRowsFrom(_)
MatchingRowsFrom(i) ==
    IF i > Len(df.rows) THEN <<>>
    ELSE (IF FirstHit(df.rows[i], column_priority_list) # 0 THEN <<i>> ELSE <<>>)
             \o MatchingRowsFrom(i + 1)

\* C2: row filtering. The returned table holds exactly the input rows for
\* which a valid number was found, in their original order, each with every
\* original field unchanged and with the field extracted_mobile_numbers.
C2_RowFiltering ==
    pc = "done" =>
        /\ [k \in 1..Len(output.rows) |-> output.rows[k].name] = MatchingRowsFrom(1)
        /\ \A k \in 1..Len(output.rows) :
              LET r == output.rows[k]
              IN  /\ EMN \in DOMAIN r.val
                  /\ \A c \in Range(df.columns) :
                        c \in DOMAIN r.val /\ r.val[c] = df.rows[r.name].val[c]

-----------------------------------------------------------------------------
(* C3 *)

\* The tolerated notations of a number.
Notations(n) == {Hyphenated(n), Spaced(n), FullWidth(n), Intl(n)}

\* The ways of writing the number n: plain digits and the tolerated notations.
Writings(n) == {Ascii(n)} \cup Notations(n)

\* The positions at which the number n is written in text, in any way.
PositionsOf(text, n) == UNION {WrittenAt(text, w) : w \in Writings(n)}

\* C3: every number of a cell is extracted. When the extraction of a one-cell
\* table is done, every known mobile number that stands in the cell as a word
\* of its own, in plain digits, is reported for the row, and two reported
\* numbers stand in the order in which the cell first writes them.
C3_AllNumbersOfACell ==
    (pc = "done" /\ TheCell # NaN) =>
        /\ \A n \in KnownNumbers :
              WrittenIn(TheCell, Ascii(n)) =>
                  \E k \in OutputRowsOf(1) : Ascii(n) \in Range(Reported(output.rows[k]))
        /\ \A n, m \in KnownNumbers :
              \A k \in OutputRowsOf(1) :
                  LET out == Reported(output.rows[k])
                  IN  (/\ Ascii(n) \in Range(out)
                       /\ Ascii(m) \in Range(out)
                       /\ FirstIndex(out, Ascii(n)) < FirstIndex(out, Ascii(m)))
                      => Min(PositionsOf(TheCell, n)) < Min(PositionsOf(TheCell, m))

-----------------------------------------------------------------------------
(* C4 *)

\* C4: notation tolerance. When the extraction of a one-cell table is done,
\* every known mobile number that stands in the cell as a word of its own,
\* written with hyphens, with spaces, in full-width digits or in the +81
\* notation, is reported for the row in its 11-digit domestic form.
C4_NotationTolerance ==
    (pc = "done" /\ TheCell # NaN) =>
        \A n \in KnownNumbers :
            \A w \in Notations(n) :
                WrittenIn(TheCell, w) =>
                    \E k \in OutputRowsOf(1) : Ascii(n) \in Range(Reported(output.rows[k]))

-----------------------------------------------------------------------------
(* C5 *)

\* C5: canonical output. In every collected row the field
\* extracted_mobile_numbers is not empty and each of its comma-separated
\* elements is 11 ASCII digits that start with 070, 080 or 090.
C5_CanonicalOutput ==
    \A k \in 1..Len(results) :
        /\ results[k].val[EMN] # <<>>
        /\ \A e \in Range(Reported(results[k])) :
              /\ Len(e) = 11
              /\ \A i \in 1..Len(e) : IsAsciiDigit(e[i])
              /\ IsMobilePrefix(e)

-----------------------------------------------------------------------------
(* C6 *)

\* C6: dedupe with order. In every collected row of a one-cell table the
\* reported numbers hold no number twice and list the valid candidates of the
\* cell in the order of their first occurrence.
C6_DedupeWithOrder ==
    \A k \in 1..Len(results) :
        IsFirstOccurrenceList(Reported(results[k]), ExtractedFromText(TheCell))

\* A collected row whose cell writes one number twice, in two notations, with
\* another number between them.
C6_Witness ==
    /\ pc = "done"
    /\ TheCell = JoinWith(<<Hyphenated(N1), Ascii(N2), FullWidth(N1)>>, Comma)
    /\ Len(output.rows) = 1
    /\ Reported(output.rows[1]) = <<Ascii(N1), Ascii(N2)>>

-----------------------------------------------------------------------------
(* C7 *)

NotAsciiDigit(c) == ~IsAsciiDigit(c)

\* C7: normalize_candidate returns ASCII digits only: what is left of the
\* argument after the full-width mapping and the trim, the removal of
\* whitespace and dashes, the rewriting of a leading +81 to 0 and the removal
\* of everything that is not an ASCII digit; None and '' give ''.
C7_NormalizeDigitsOnly ==
    ret.fn = "normalize_candidate" =>
        /\ \A i \in 1..Len(ret.text) : IsAsciiDigit(ret.text[i])
        /\ ret.text =
              IF arg = None THEN <<>>
              ELSE SelectSeq(
                     ConvertIntl(SelectSeq(Strip(Translate(arg)), NotSpaceOrDash)),
                     IsAsciiDigit)

-----------------------------------------------------------------------------
(* C8 *)

\* C8: validator exactness. is_valid_jp_mobile(s) is true exactly when s is
\* 11 characters long, starts with 070, 080 or 090, and its other 8
\* characters are digits 0-9.
C8_ValidatorExact ==
    ret.fn = "is_valid_jp_mobile" =>
        (ret.valid <=>
            /\ Len(arg) = 11
            /\ SubSeq(arg, 1, 3) \in {<<48, 55, 48>>, <<48, 56, 48>>, <<48, 57, 48>>}
            /\ \A i \in 4..11 : IsAsciiDigit(arg[i]))

-----------------------------------------------------------------------------
(* C9 *)

\* C9: column set. The columns of the returned table are the columns of the
\* input, in their order, followed by one column extracted_mobile_numbers,
\* whether the table has rows or not.
C9_ColumnSet ==
    pc = "done" => output.columns = Append(df.columns, EMN)

-----------------------------------------------------------------------------
(* C10 *)

IsPrefixOfNaturals(s) == \A j \in 1..Len(s) : s[j] = j

\* C10: scan order and short circuit. For every row, at every moment: the
\* columns inspected so far are the first k of the priority list, in order,
\* each once; every inspected column but the last yielded no valid number, so
\* nothing is inspected after a hit; HIT(k) means the k-th column yielded a
\* valid number, NO_HIT_ANY means all columns were inspected and none did;
\* a row whose scan is over is in exactly one of the two terminal states; and
\* in the end the rows in HIT are the rows returned.
C10_ScanOrder ==
    \A i \in 1..Len(df.rows) :
        LET row  == df.rows[i]
            s    == scan[i]
            k    == Len(s.inspected)
            over == i < idx \/ (i = idx /\ pc \in {"dedupe", "rows", "done"})
        IN  /\ IsPrefixOfNaturals(s.inspected)
            /\ k <= Len(column_priority_list)
            /\ \A j \in 1..(k - 1) :
                  Valid(row, column_priority_list[j]) = <<>>
            /\ s.st \in {"NOT_STARTED", "SCANNING", "HIT", "NO_HIT_ANY"}
            /\ s.st = "NOT_STARTED" <=> i > idx
            /\ s.st = "SCANNING" <=> (i = idx /\ pc = "cols")
            /\ over <=> s.st \in {"HIT", "NO_HIT_ANY"}
            /\ s.st = "HIT" =>
                  k >= 1 /\ Valid(row, column_priority_list[k]) # <<>>
            /\ s.st = "NO_HIT_ANY" =>
                  /\ k = Len(column_priority_list)
                  /\ \A j \in 1..k : Valid(row, column_priority_list[j]) = <<>>
            /\ s.st = "SCANNING" =>
                  \A j \in 1..k : Valid(row, column_priority_list[j]) = <<>>
            /\ pc = "done" => (s.st = "HIT" <=> OutputRowsOf(i) # {})

\* A finished extraction in which one row hit on its first column while its
\* second column, never inspected, holds a valid number too, and another row
\* was inspected to the end of the list and dropped.
C10_Witness ==
    /\ pc = "done"
    /\ Len(column_priority_list) = 2
    /\ \E i \in 1..Len(df.rows) :
          /\ scan[i] = [st |-> "HIT", inspected |-> <<1>>]
          /\ Valid(df.rows[i], column_priority_list[2]) # <<>>
    /\ \E i \in 1..Len(df.rows) :
          /\ scan[i] = [st |-> "NO_HIT_ANY", inspected |-> <<1, 2>>]
          /\ OutputRowsOf(i) = {}

====
